---- MODULE Spec2Model ----
(***************************************************************************)
(* State machine of the Telegram image bot in src/main.py: the sqlite      *)
(* tables (users, bans, settings, logs), the per-user pending admin        *)
(* action kept in context.user_data, and the generate() pipeline cut at    *)
(* its await points.                                                       *)
(*                                                                         *)
(* A text is a sequence of one-character strings, so that int(), str(),    *)
(* strip() and split() are computed and not assumed.  Time is counted in   *)
(* ticks, Res ticks to the second, because time.time() is a float and the  *)
(* code truncates the remaining wait with int().                           *)
(***************************************************************************)
EXTENDS Integers, Sequences, FiniteSets, TLC

(* ------------------------------ bounds --------------------------------- *)
\* ticks per second of the modelled clock
Res == 2
\* wall-clock seconds at start-up
Epoch == 100
\* how many ticks the clock may advance
Horizon == 3
\* request slots: generate() invocations that may be in flight or finished
MaxReq == 2
\* longest direct image list the provider returns
MaxImages == 5

(* --------------------------- program constants ------------------------- *)
\* batch_size passed to digen_request, range(4) and images[:4]
BatchSize == 4
\* ADMIN_ID: the admin identity of the deployment (os.getenv("ADMIN_ID"))
ADMIN_ID == 1
\* the literal "30" default of the rate_limit setting
RateLimitFallback == 30

(* ------------------------------- texts --------------------------------- *)
Digits == <<"0", "1", "2", "3", "4", "5", "6", "7", "8", "9">>

IsDigit(c) == \E i \in 1..10 : Digits[i] = c

DigitVal(c) == (CHOOSE i \in 1..10 : Digits[i] = c) - 1

IsSpace(c) == c = " "

RECURSIVE LStrip(_)
LStrip(s) == IF s # <<>> /\ IsSpace(Head(s)) THEN LStrip(Tail(s)) ELSE s

RECURSIVE RStrip(_)
RStrip(s) ==
    IF s # <<>> /\ IsSpace(s[Len(s)]) THEN RStrip(SubSeq(s, 1, Len(s) - 1)) ELSE s

\* str.strip()
Strip(s) == RStrip(LStrip(s))

RECURSIVE DigitsVal(_)
DigitsVal(s) ==
    IF s = <<>> THEN 0
    ELSE 10 * DigitsVal(SubSeq(s, 1, Len(s) - 1)) + DigitVal(s[Len(s)])

AllDigits(s) == s # <<>> /\ \A i \in 1..Len(s) : IsDigit(s[i])

\* int(text): surrounding blanks, an optional sign, then decimal digits;
\* anything else raises ValueError (ok = FALSE)
ParseInt(t) ==
    LET s == Strip(t)
        signed == s # <<>> /\ Head(s) \in {"-", "+"}
        body == IF signed THEN Tail(s) ELSE s
    IN  IF AllDigits(body)
        THEN [ok |-> TRUE,
              val |-> IF signed /\ Head(s) = "-" THEN 0 - DigitsVal(body)
                      ELSE DigitsVal(body)]
        ELSE [ok |-> FALSE, val |-> 0]

RECURSIVE NatStr(_)
NatStr(n) ==
    IF n < 10 THEN <<Digits[n + 1]>> ELSE NatStr(n \div 10) \o <<Digits[(n % 10) + 1]>>

\* str(val) of an int
IntStr(n) == IF n < 0 THEN <<"-">> \o NatStr(0 - n) ELSE NatStr(n)

HasPipe(s) == \E i \in 1..Len(s) : s[i] = "|"

FirstPipe(s) == CHOOSE i \in 1..Len(s) : s[i] = "|" /\ \A j \in 1..(i - 1) : s[j] # "|"

\* text.split("|", 1) when "|" in text
SplitPipe(s) ==
    LET i == FirstPipe(s)
    IN  <<SubSeq(s, 1, i - 1), SubSeq(s, i + 1, Len(s))>>

(* ------------------------------- state --------------------------------- *)
VARIABLES
    now,           \* time.time(), in ticks
    users,         \* table users: user_id -> [username, last_gen_ts]
    bans,          \* table bans: set of user_id
    settings,      \* table settings: key -> value (a text)
    logs,          \* table logs, in insertion order
    admin_action,  \* context.user_data['admin_action'] of each user; "" when unset
    admin_reply,   \* the last text admin_message_processor took and its answer
    req            \* the generate() invocations, by slot

vars == <<now, users, bans, settings, logs, admin_action, admin_reply, req>>

UserIds == {1, 2}

Usernames == {"", "neo"}

NoAction == ""

AdminActions == {"broadcast", "set_limit", "ban_flow", "set_token"}

(* ---------------------------- sqlite helpers --------------------------- *)
\* the settings table is not read: the default is returned
db_get_setting_default(key, default) == default

\* SELECT value FROM settings WHERE key = ?; row[0] if row else default
db_get_setting(key, default) ==
    IF key \in DOMAIN settings THEN settings[key] ELSE default

\* INSERT OR REPLACE INTO settings
SettingsWith(s, key, value) ==
    [k \in DOMAIN s \cup {key} |-> IF k = key THEN value ELSE s[k]]

\* INSERT OR REPLACE: the row is written anew with the default timestamp
add_user_replace(u, user_id, username) ==
    [k \in DOMAIN u \cup {user_id} |->
        IF k = user_id THEN [username |-> username, last_gen_ts |-> 0] ELSE u[k]]

\* the upsert also stamps the row with the current time
add_user_stamps(u, user_id, username) ==
    [k \in DOMAIN u \cup {user_id} |->
        IF k = user_id THEN [username |-> username, last_gen_ts |-> now] ELSE u[k]]

\* INSERT OR IGNORE, then UPDATE username
add_user(u, user_id, username) ==
    [k \in DOMAIN u \cup {user_id} |->
        IF k = user_id
        THEN [username |-> username,
              last_gen_ts |-> IF user_id \in DOMAIN u THEN u[user_id].last_gen_ts ELSE 0]
        ELSE u[k]]

\* UPDATE users SET last_gen_ts = ? WHERE user_id = ?
set_last_gen(u, user_id, ts) ==
    [k \in DOMAIN u |-> IF k = user_id THEN [u[k] EXCEPT !.last_gen_ts = ts] ELSE u[k]]

\* SELECT last_gen_ts ...; row[0] if row else 0
get_last_gen(u, user_id) ==
    IF user_id \in DOMAIN u THEN u[user_id].last_gen_ts ELSE 0

\* the ban lookup finds no row
is_banned_no_row(user_id) == FALSE

\* SELECT 1 FROM bans WHERE user_id = ?
is_banned(user_id) == user_id \in bans

\* INSERT OR IGNORE INTO bans
ban_user(b, user_id) == b \cup {user_id}

\* the DELETE removes no row
unban_user_keep(b, user_id) == b

\* DELETE FROM bans WHERE user_id = ?
unban_user(b, user_id) == b \ {user_id}

\* user.username or "N/A"
DisplayName(name) == IF name = "" THEN "N/A" ELSE name

(* -------------------------- admission control --------------------------- *)
\* int(x) of a float number of ticks, in whole seconds: truncation toward zero
IntSeconds(x) == IF x >= 0 THEN x \div Res ELSE 0 - ((0 - x) \div Res)

\* int(db_get_setting("rate_limit", str(DEFAULT_RATE_LIMIT))), in seconds
RateLimitSetting == ParseInt(db_get_setting("rate_limit", IntStr(RateLimitFallback)))

\* the comparison written with <=
RateLimited_le(t, last_ts, rate_limit) == t - last_ts <= rate_limit * Res

\* now - last_ts < rate_limit, with now and last_ts in ticks
RateLimited(t, last_ts, rate_limit) == t - last_ts < rate_limit * Res

\* wait = int(rate_limit - (now - last_ts))
WaitSeconds(t, last_ts, rate_limit) == IntSeconds(rate_limit * Res - (t - last_ts))

(* ---------------------------- provider reply --------------------------- *)
NoneStr == "<None>"

\* Python truthiness of an optional string
Truthy(s) == s \notin {NoneStr, ""}

\* f"https://liveme-image.s3.amazonaws.com/{image_id}-{i}.jpeg"
DerivedUrl(image_id, i) == <<"s3", image_id, i>>

\* a URL the provider lists itself
DirectUrl(k) == <<"direct", "", k>>

\* data.id or data.task_id or None
ImageId(json) ==
    IF Truthy(json.id) THEN json.id
    ELSE IF Truthy(json.task_id) THEN json.task_id
    ELSE NoneStr

\* the list taken whole
FirstImages_uncapped(images) == images

\* images[:4]
FirstImages(images) ==
    SubSeq(images, 1, IF Len(images) < BatchSize THEN Len(images) ELSE BatchSize)

\* [derived url for i in range(4)]
DerivedUrls(image_id) == [i \in 1..BatchSize |-> DerivedUrl(image_id, i - 1)]

\* image_urls of generate(); <<>> when the reply names neither an id nor images
ImageUrls(json) ==
    IF Truthy(ImageId(json)) THEN DerivedUrls(ImageId(json))
    ELSE FirstImages(json.images)

\* status != 200 or not json_resp
ApiFailed(resp) == resp.status # 200 \/ resp.json.kind # "obj"

(* ------------------------------ asset fetch ---------------------------- *)
Pending == "pending"

\* if r: of a download result (None and b"" are both falsy)
HasBytes(data) == data \notin {"none", "empty"}

\* results kept in the order in which the tasks finish
GatherStore_completion_order(results, i, entry) ==
    LET k == CHOOSE j \in 1..Len(results) :
                 /\ results[j].data = Pending
                 /\ \A h \in 1..(j - 1) : results[h].data # Pending
    IN  [results EXCEPT ![k] = entry]

\* asyncio.gather keeps the result of task i at position i
GatherStore(results, i, entry) == [results EXCEPT ![i] = entry]

\* the list taken without the filter
Downloaded_unfiltered(results) == results

\* downloaded = [r for r in results if r]
Downloaded(results) == SelectSeq(results, LAMBDA e : HasBytes(e.data))

AllFetched(results) == \A i \in 1..Len(results) : results[i].data # Pending

(* ------------------------------ requests ------------------------------- *)
Slots == 1..MaxReq

JsonNull == [kind |-> "null", id |-> NoneStr, task_id |-> NoneStr, images |-> <<>>]

\* resp.text of a reply, or str(e) of the exception that requests.post raised
RawBody(status) == <<"body", status>>

ExceptionText == <<"str(e)", 0>>

NoText == <<"", 0>>

NoResp == [status |-> 0, text |-> NoText, json |-> JsonNull]

\* a generate() coroutine: its position, its locals, and what it has done so far
\* (translations, calls, payload, shown, fetches, absent, logged, offered, video,
\* ts_set, notified, outcome); regen tells that callback_handler started it
IdleReq ==
    [pc |-> "idle", user |-> 0, username |-> "", prompt |-> <<>>,
     last_ts |-> 0, rate_limit |-> 0, admit_now |-> 0, wait |-> 0,
     prompt_en |-> <<>>, translations |-> 0, translated |-> FALSE,
     calls |-> 0, token |-> <<>>, sessionid |-> <<>>, resp |-> NoResp,
     image_urls |-> <<>>, results |-> <<>>, fetches |-> 0, absent |-> 0,
     logged |-> FALSE, ts_set |-> FALSE, notified |-> FALSE, outcome |-> "",
     regen |-> FALSE, payload |-> <<>>, shown |-> NoText, offered |-> FALSE,
     video |-> ""]

\* the coroutine returns (or an exception leaves it): its locals are gone, what
\* it did and what it told the requester remain
Ended(r, outcome) ==
    [r EXCEPT !.pc = "done", !.outcome = outcome,
              !.last_ts = 0, !.rate_limit = 0, !.admit_now = 0,
              !.prompt_en = <<>>, !.image_urls = <<>>, !.results = <<>>]

InFlight == Cardinality({s \in Slots : req[s].pc \notin {"idle", "done"}})

\* GoogleTranslator(source='auto', target='en').translate(text)
Translated(text) == <<"[en]">> \o text

\* the row holds the translated prompt
LogRow_en(r, ts) ==
    [user_id |-> r.user, username |-> r.username, prompt |-> r.prompt_en,
     images |-> r.image_urls, ts |-> ts]

\* log_entry(user.id, username, orig_prompt, image_urls) at time ts
LogRow(r, ts) ==
    [user_id |-> r.user, username |-> r.username, prompt |-> r.prompt,
     images |-> r.image_urls, ts |-> ts]

Init ==
    /\ now = Epoch * Res
    /\ users = <<>>
    /\ bans = {}
    /\ settings = [k \in {"admin_id"} |-> IntStr(ADMIN_ID)]
    /\ logs = <<>>
    /\ admin_action = [u \in UserIds |-> NoAction]
    /\ admin_reply = <<"", 0, <<>>>>
    /\ req = [s \in Slots |-> IdleReq]

\* the clock advances
Tick ==
    /\ now < Epoch * Res + Horizon
    /\ now' = now + 1
    /\ UNCHANGED <<users, bans, settings, logs, admin_action, admin_reply, req>>

(* ------------------------------ admin panel ---------------------------- *)
\* callback_handler, admin buttons: the pressing user's user_data gets the tag
\* (the handler does not look at who pressed)
CallbackAdmin(u, data) ==
    /\ data \in {"admin_broadcast", "admin_limit", "admin_ban", "admin_token"}
    /\ admin_action' =
         [admin_action EXCEPT ![u] =
            CASE data = "admin_broadcast" -> "broadcast"
              [] data = "admin_limit" -> "set_limit"
              [] data = "admin_ban" -> "ban_flow"
              [] data = "admin_token" -> "set_token"]
    /\ UNCHANGED <<now, users, bans, settings, logs, admin_reply, req>>

\* what admin_message_processor was sent and what it answered: the reply's kind,
\* the number it shows, and update.message.text
Reply(kind, arg, text) == <<kind, arg, text>>

\* every sender passes for the admin
IsAdmin_anyone(u) == TRUE

\* user.id == ADMIN_ID, the test of message_router and of admin_message_processor
IsAdmin(u) == u = ADMIN_ID

\* message_router sends the update to admin_message_processor
RoutedToAdmin(u) == IsAdmin(u) /\ admin_action[u] # NoAction

\* the tag is left in user_data
PopAction_keep(u) == admin_action

\* context.user_data.pop('admin_action', None)
PopAction(u) == [admin_action EXCEPT ![u] = NoAction]

\* the text is forwarded whichever action is pending
AdminBroadcast_any(text, blocked, replyOk) ==
    /\ RoutedToAdmin(ADMIN_ID)
    /\ admin_action' = PopAction(ADMIN_ID)
    /\ admin_reply' =
         IF replyOk THEN Reply("forwarded", Cardinality(DOMAIN users \ blocked), text)
         ELSE Reply("reply_failed", 0, text)
    /\ UNCHANGED <<now, users, bans, settings, logs, req>>

\* action == 'broadcast': forward to every row of users; blocked recipients raise
\* and are skipped; pop; reply with the count
ProcessBroadcast(u, text, blocked, replyOk) ==
    /\ RoutedToAdmin(u) /\ IsAdmin(u)
    /\ admin_action[u] = "broadcast"
    /\ admin_action' = PopAction(u)
    /\ admin_reply' =
         IF replyOk THEN Reply("forwarded", Cardinality(DOMAIN users \ blocked), text)
         ELSE Reply("reply_failed", 0, text)
    /\ UNCHANGED <<now, users, bans, settings, logs, req>>

\* message_router and admin_message_processor for a text of the admin
AdminBroadcast(text, blocked, replyOk) ==
    ProcessBroadcast(ADMIN_ID, text, blocked, replyOk)

\* action == 'set_limit': try: int(text); db_set_setting; pop; reply
\*                         except: reply "enter an integer" (no pop); a reply
\*                         that raises after the pop lands in the except branch
ProcessSetLimit(u, text, replyOk) ==
    LET val == ParseInt(Strip(text))
    IN  /\ RoutedToAdmin(u) /\ IsAdmin(u)
        /\ admin_action[u] = "set_limit"
        /\ IF val.ok
           THEN /\ settings' = SettingsWith(settings, "rate_limit", IntStr(val.val))
                /\ admin_action' = PopAction(u)
                /\ admin_reply' = IF replyOk THEN Reply("limit_saved", val.val, text)
                                  ELSE Reply("need_integer", 0, text)
           ELSE /\ admin_reply' = Reply("need_integer", 0, text)
                /\ UNCHANGED <<settings, admin_action>>
        /\ UNCHANGED <<now, users, bans, logs, req>>

\* message_router and admin_message_processor for a text of the admin
AdminSetLimit(text, replyOk) ==
    ProcessSetLimit(ADMIN_ID, text, replyOk)

\* action == 'ban_flow': try: int(text); toggle; reply; pop
\*                       except: reply "bad id" (no pop); a reply that raises
\*                       after the toggle lands in the except branch too
ProcessBanFlow(u, text, replyOk) ==
    LET uid == ParseInt(Strip(text))
    IN  /\ RoutedToAdmin(u) /\ IsAdmin(u)
        /\ admin_action[u] = "ban_flow"
        /\ IF uid.ok
           THEN /\ bans' = IF is_banned(uid.val) THEN unban_user(bans, uid.val)
                           ELSE ban_user(bans, uid.val)
                /\ IF replyOk
                   THEN /\ admin_action' = PopAction(u)
                        /\ admin_reply' =
                             Reply(IF is_banned(uid.val) THEN "unbanned" ELSE "banned",
                                   uid.val, text)
                   ELSE /\ admin_reply' = Reply("bad_id", 0, text)
                        /\ UNCHANGED admin_action
           ELSE /\ admin_reply' = Reply("bad_id", 0, text)
                /\ UNCHANGED <<bans, admin_action>>
        /\ UNCHANGED <<now, users, settings, logs, req>>

\* message_router and admin_message_processor for a text of the admin
AdminBanFlow(text, replyOk) ==
    ProcessBanFlow(ADMIN_ID, text, replyOk)

\* action == 'set_token': "token|session" or a bare token; reply; pop
\* (a reply that raises leaves the handler before the pop)
ProcessSetToken(u, text, replyOk) ==
    LET t == Strip(text)
        parts == SplitPipe(t)
    IN  /\ RoutedToAdmin(u) /\ IsAdmin(u)
        /\ admin_action[u] = "set_token"
        /\ settings' =
             IF HasPipe(t)
             THEN SettingsWith(SettingsWith(settings, "digen_token", Strip(parts[1])),
                               "digen_session", Strip(parts[2]))
             ELSE SettingsWith(settings, "digen_token", Strip(t))
        /\ IF replyOk
           THEN /\ admin_action' = PopAction(u)
                /\ admin_reply' = Reply(IF HasPipe(t) THEN "token_session_saved"
                                        ELSE "token_saved", 0, text)
           ELSE /\ admin_reply' = Reply("reply_failed", 0, text)
                /\ UNCHANGED admin_action
        /\ UNCHANGED <<now, users, bans, logs, req>>

\* message_router and admin_message_processor for a text of the admin
AdminSetToken(text, replyOk) ==
    ProcessSetToken(ADMIN_ID, text, replyOk)

(* ------------------------------ generate() ----------------------------- *)
\* message_router -> generate, up to the first await that can suspend it:
\* add_user, ban check, rate limit, "prompt received" reply
GenerateStart(s, u, name, text, replyOk) ==
    LET rl == RateLimitSetting
        last_ts == get_last_gen(add_user(users, u, DisplayName(name)), u)
        r0 == [req[s] EXCEPT !.user = u, !.username = DisplayName(name),
                             !.prompt = Strip(text), !.admit_now = now]
        r1 == [r0 EXCEPT !.last_ts = last_ts, !.rate_limit = rl.val]
    IN  /\ req[s].pc = "idle"
        /\ \A q \in Slots : q < s => req[q].pc # "idle"
        /\ ~RoutedToAdmin(u)
        /\ users' = add_user(users, u, DisplayName(name))
        /\ req' = [req EXCEPT ![s] =
             IF is_banned(u) THEN Ended(r0, "Banned")
             ELSE IF ~rl.ok THEN Ended(r0, "Crashed")
             ELSE IF RateLimited(now, last_ts, rl.val)
             THEN Ended([r1 EXCEPT !.wait = WaitSeconds(now, last_ts, rl.val)],
                        "RateLimited")
             ELSE IF ~replyOk THEN Ended(r1, "Crashed")
             ELSE [r1 EXCEPT !.pc = "translate"]]
        /\ UNCHANGED <<now, bans, settings, logs, admin_action, admin_reply>>

\* prompt_en = await asyncio.to_thread(translate_to_en, orig_prompt)
Translate(s, ok) ==
    /\ req[s].pc = "translate"
    /\ req' = [req EXCEPT ![s].pc = "digen",
                          ![s].translations = @ + 1,
                          ![s].translated = ok,
                          ![s].prompt_en = IF ok THEN Translated(req[s].prompt)
                                           ELSE req[s].prompt]
    /\ UNCHANGED <<now, users, bans, settings, logs, admin_action, admin_reply>>

\* a failed call is tried again, up to three calls
DigenRequest_retry(s, resp) ==
    LET r1 == [req[s] EXCEPT !.calls = @ + 1,
                             !.payload = req[s].prompt_en,
                             !.token = db_get_setting("digen_token", <<>>),
                             !.sessionid = db_get_setting("digen_session", <<>>),
                             !.resp = resp]
        urls == ImageUrls(resp.json)
    IN  /\ req[s].pc = "digen"
        /\ req' = [req EXCEPT ![s] =
             IF ApiFailed(resp) /\ r1.calls < 3 THEN r1
             ELSE IF ApiFailed(resp)
             THEN Ended([r1 EXCEPT !.shown = resp.text], "ApiError")
             ELSE IF urls = <<>> THEN Ended(r1, "NoAssets")
             ELSE [r1 EXCEPT !.pc = "download", !.image_urls = urls,
                             !.fetches = Len(urls),
                             !.results = [i \in 1..Len(urls) |->
                                            [url |-> urls[i], data |-> Pending]]]]
        /\ UNCHANGED <<now, users, bans, settings, logs, admin_action, admin_reply>>

\* digen_request in its thread (headers read from settings, one requests.post),
\* then generate() up to the start of the downloads; the API error reply shows
\* the status and text_resp
DigenRequest(s, resp) ==
    LET r1 == [req[s] EXCEPT !.calls = @ + 1,
                             !.payload = req[s].prompt_en,
                             !.token = db_get_setting("digen_token", <<>>),
                             !.sessionid = db_get_setting("digen_session", <<>>),
                             !.resp = resp]
        urls == ImageUrls(resp.json)
    IN  /\ req[s].pc = "digen"
        /\ req' = [req EXCEPT ![s] =
             IF ApiFailed(resp) THEN Ended([r1 EXCEPT !.shown = resp.text], "ApiError")
             ELSE IF urls = <<>> THEN Ended(r1, "NoAssets")
             ELSE [r1 EXCEPT !.pc = "download", !.image_urls = urls,
                             !.fetches = Len(urls),
                             !.results = [i \in 1..Len(urls) |->
                                            [url |-> urls[i], data |-> Pending]]]]
        /\ UNCHANGED <<now, users, bans, settings, logs, admin_action, admin_reply>>

\* task i of the gather has not returned yet
TaskRunning(r, i) ==
    \A j \in 1..Len(r.results) :
        r.results[j].url # r.image_urls[i] \/ r.results[j].data = Pending

\* one async_download task finishes: data on status 200, None otherwise
Download(s, i, data) ==
    /\ req[s].pc = "download"
    /\ i \in 1..Len(req[s].results)
    /\ TaskRunning(req[s], i)
    /\ req' = [req EXCEPT ![s].results =
                 GatherStore(@, i, [url |-> req[s].image_urls[i], data |-> data])]
    /\ UNCHANGED <<now, users, bans, settings, logs, admin_action, admin_reply>>

\* number of fetches that came back None
Absent(results) == Cardinality({i \in 1..Len(results) : results[i].data = "none"})

\* results = await asyncio.gather(*tasks) returns; downloaded is filtered; with
\* nothing downloaded the request ends, otherwise log_entry, the photo group
\* (its failure is caught) and the prompt message with the regenerate button
\* (its failure leaves the handler)
Persist(s, promptOk) ==
    LET r1 == [req[s] EXCEPT !.absent = Absent(req[s].results)]
    IN  /\ req[s].pc = "download"
        /\ AllFetched(req[s].results)
        /\ IF Downloaded(req[s].results) = <<>>
           THEN /\ req' = [req EXCEPT ![s] = Ended(r1, "DownloadFailed")]
                /\ UNCHANGED logs
           ELSE /\ logs' = Append(logs, LogRow(req[s], now))
                /\ req' = [req EXCEPT ![s] =
                     IF promptOk
                     THEN [r1 EXCEPT !.logged = TRUE, !.offered = TRUE, !.pc = "video"]
                     ELSE Ended([r1 EXCEPT !.logged = TRUE], "Crashed")]
        /\ UNCHANGED <<now, users, bans, settings, admin_action, admin_reply>>

\* the timestamp written is the now that admission read
FinishTime_admission(r) == r.admit_now

\* time.time() in set_last_gen(user.id, time.time())
FinishTime(r) == now

\* a failed video is answered with the warning and the handler returns
Finish_warn_returns(s, videoOk, warnOk, notifyOk) ==
    LET admin_id == ParseInt(db_get_setting("admin_id", IntStr(ADMIN_ID)))
    IN  /\ req[s].pc = "video"
        /\ IF ~videoOk
           THEN /\ req' = [req EXCEPT ![s] =
                     Ended([@ EXCEPT !.video = IF warnOk THEN "warned" ELSE "failed"],
                           IF warnOk THEN "Done" ELSE "Crashed")]
                /\ UNCHANGED users
           ELSE /\ users' = set_last_gen(users, req[s].user, FinishTime(req[s]))
                /\ req' = [req EXCEPT ![s] =
                     Ended([@ EXCEPT !.ts_set = TRUE,
                                     !.video = "sent",
                                     !.notified = admin_id.ok /\ admin_id.val # 0
                                                  /\ notifyOk],
                           IF admin_id.ok THEN "Done" ELSE "Crashed")]
        /\ UNCHANGED <<now, bans, settings, logs, admin_action, admin_reply>>

\* the video block (a failure is caught and answered with a warning; a warning
\* that cannot be sent leaves the handler), set_last_gen(user.id, time.time()),
\* and the admin notification (failures are logged only)
Finish(s, videoOk, warnOk, notifyOk) ==
    LET admin_id == ParseInt(db_get_setting("admin_id", IntStr(ADMIN_ID)))
    IN  /\ req[s].pc = "video"
        /\ IF ~videoOk /\ ~warnOk
           THEN /\ req' = [req EXCEPT ![s] = Ended([@ EXCEPT !.video = "failed"], "Crashed")]
                /\ UNCHANGED users
           ELSE /\ users' = set_last_gen(users, req[s].user, FinishTime(req[s]))
                /\ req' = [req EXCEPT ![s] =
                     Ended([@ EXCEPT !.ts_set = TRUE,
                                     !.video = IF videoOk THEN "sent" ELSE "warned",
                                     !.notified = admin_id.ok /\ admin_id.val # 0
                                                  /\ notifyOk],
                           IF admin_id.ok THEN "Done" ELSE "Crashed")]
        /\ UNCHANGED <<now, bans, settings, logs, admin_action, admin_reply>>

\* callback_handler, data "regen|<prompt>" of the button that request q sent:
\* the panel message is edited, query.message.text is assigned (a frozen Message
\* raises and the handler is left), then generate(update, context) is called
\* with the callback update, whose update.message is None: generate returns at
\* its first test, before add_user
CallbackRegen(s, q, u, frozen) ==
    LET r0 == [req[s] EXCEPT !.user = u, !.prompt = req[q].prompt, !.regen = TRUE]
    IN  /\ req[s].pc = "idle"
        /\ \A p \in Slots : p < s => req[p].pc # "idle"
        /\ req[q].offered
        /\ req' = [req EXCEPT ![s] = Ended(r0, IF frozen THEN "Crashed" ELSE "NoMessage")]
        /\ UNCHANGED <<now, users, bans, settings, logs, admin_action, admin_reply>>

(* ------------------------------- inputs -------------------------------- *)
T_45 == <<"4", "5">>
T_abc == <<"a", "b", "c">>
T_neg5 == <<"-", "5">>
T_2 == <<" ", "2", " ">>
T_1 == <<"1">>
T_999 == <<"9", "9", "9">>
T_ks == <<"k", "|", "s">>
T_k == <<"k">>

Texts == {T_45, T_abc, T_neg5, T_2, T_1, T_999, T_ks, T_k}

AdminButtons == {"admin_broadcast", "admin_limit", "admin_ban", "admin_token"}

ImageLists ==
    {[i \in 1..n |-> DirectUrl(i)] : n \in 0..MaxImages}
      \cup {[i \in 1..n |-> DirectUrl(n + 1 - i)] : n \in 2..MaxImages}

JsonEmpty == [kind |-> "empty", id |-> NoneStr, task_id |-> NoneStr, images |-> <<>>]

JsonObj(id, task_id, images) ==
    [kind |-> "obj", id |-> id, task_id |-> task_id, images |-> images]

\* resp.json() of a 200 reply: {} or an object whose data may hold id, task_id, images
JsonBodies ==
    {JsonEmpty} \cup {JsonObj(i, t, l) : i \in {NoneStr, "", "abc"}, t \in {NoneStr, "t7"},
                                          l \in ImageLists}

RespException == [status |-> 0, text |-> ExceptionText, json |-> JsonNull]

RespHttp500 == [status |-> 500, text |-> RawBody(500), json |-> JsonNull]

Resp200(json) == [status |-> 200, text |-> RawBody(200), json |-> json]

\* what digen_request returns: an exception (status None, here 0), a non-200
\* status, or a 200 status with its JSON body
Responses == {RespException, RespHttp500} \cup {Resp200(j) : j \in JsonBodies}

FetchData == {"none", "empty", "bytes"}

OneImage == Resp200(JsonObj(NoneStr, NoneStr, <<DirectUrl(1)>>))

\* Admission: the admin sets the rate limit and bans, both users send prompts one
\* at a time, the provider names one image, which downloads.
NextAdmit ==
    \/ Tick
    \/ \E d \in {"admin_limit", "admin_ban"} : CallbackAdmin(ADMIN_ID, d)
    \/ \E t \in {T_1, T_999} : AdminSetLimit(t, TRUE)
    \/ \E t \in {T_2} : AdminBanFlow(t, TRUE)
    \/ \E s \in Slots, u \in UserIds :
         InFlight < 1 /\ GenerateStart(s, u, "neo", T_abc, TRUE)
    \/ \E s \in Slots : Translate(s, TRUE)
    \/ \E s \in Slots : DigenRequest(s, OneImage)
    \/ \E s \in Slots, i \in 1..BatchSize : Download(s, i, "bytes")
    \/ \E s \in Slots : Persist(s, TRUE)
    \/ \E s \in Slots : Finish(s, TRUE, TRUE, TRUE)

SpecAdmit == Init /\ [][NextAdmit]_vars

ErrorBodies ==
    {RespException, RespHttp500, Resp200(JsonEmpty),
     Resp200(JsonObj(NoneStr, NoneStr, <<>>)), OneImage}

\* The pipeline with its failures: prompts arrive one at a time, the provider
\* raises, answers 500, answers 200 with an empty or assetless body or names one
\* image, the download and the sends may fail.
NextPipe ==
    \/ Tick
    \/ \E s \in Slots, u \in UserIds, ok \in BOOLEAN :
         InFlight < 1 /\ GenerateStart(s, u, "", T_abc, ok)
    \/ \E s \in Slots : Translate(s, TRUE)
    \/ \E s \in Slots, resp \in ErrorBodies : DigenRequest(s, resp)
    \/ \E s \in Slots, i \in 1..BatchSize, d \in FetchData : Download(s, i, d)
    \/ \E s \in Slots, ok \in BOOLEAN : Persist(s, ok)
    \/ \E s \in Slots, v \in BOOLEAN, w \in BOOLEAN, n \in BOOLEAN : Finish(s, v, w, n)

SpecPipe == Init /\ [][NextPipe]_vars

\* One request on its own: every provider answer, every download outcome in
\* every completion order; translation, sends, video and admin notification may
\* fail.
NextFetch ==
    \/ GenerateStart(1, 2, "neo", T_abc, TRUE)
    \/ \E ok \in BOOLEAN : Translate(1, ok)
    \/ \E resp \in Responses : DigenRequest(1, resp)
    \/ \E i \in 1..BatchSize, d \in FetchData : Download(1, i, d)
    \/ \E ok \in BOOLEAN : Persist(1, ok)
    \/ \E v \in BOOLEAN, w \in BOOLEAN, n \in BOOLEAN : Finish(1, v, w, n)

SpecFetch == Init /\ [][NextFetch]_vars

\* The admin panel: the admin presses every button and sends well and badly
\* formed texts; a text sent with nothing pending, and every text of the other
\* user, is a prompt (the provider answers 500).
NextAdmin ==
    \/ \E d \in AdminButtons : CallbackAdmin(ADMIN_ID, d)
    \/ \E blocked \in {{}, {ADMIN_ID}}, ok \in BOOLEAN : AdminBroadcast(T_abc, blocked, ok)
    \/ \E t \in {T_45, T_abc, T_neg5}, ok \in BOOLEAN : AdminSetLimit(t, ok)
    \/ \E t \in {T_2, T_abc}, ok \in BOOLEAN : AdminBanFlow(t, ok)
    \/ \E t \in {T_ks, T_k}, ok \in BOOLEAN : AdminSetToken(t, ok)
    \/ \E s \in Slots, u \in UserIds :
         InFlight < 1 /\ GenerateStart(s, u, "neo", T_45, TRUE)
    \/ \E s \in Slots : Translate(s, TRUE)
    \/ \E s \in Slots : DigenRequest(s, RespHttp500)

SpecAdmin == Init /\ [][NextAdmin]_vars

T_3 == <<"3">>

\* The ban menu: the admin opens the ban flow and sends ids and a text that is no
\* id, the other user presses every button of the panel, and both send prompts
\* (the provider answers 500).
NextPanel ==
    \/ CallbackAdmin(ADMIN_ID, "admin_ban")
    \/ \E d \in AdminButtons : CallbackAdmin(2, d)
    \/ \E t \in {T_2, T_3, T_abc}, ok \in BOOLEAN : AdminBanFlow(t, ok)
    \/ \E s \in Slots, u \in UserIds :
         InFlight < 1 /\ GenerateStart(s, u, "neo", T_2, TRUE)
    \/ \E s \in Slots : Translate(s, TRUE)
    \/ \E s \in Slots : DigenRequest(s, RespHttp500)

SpecPanel == Init /\ [][NextPanel]_vars

T_cat == <<" ", "c", "a", "t">>

IdImage == Resp200(JsonObj("abc", NoneStr, <<>>))

\* Requests side by side: both users send prompts while earlier ones are still
\* running, the provider returns an identifier, the four fetches succeed (in
\* index order), and the regenerate button of a request is pressed.
NextRun ==
    \/ Tick
    \/ \E s \in Slots, u \in UserIds :
         InFlight < 2 /\ GenerateStart(s, u, "neo", T_cat, TRUE)
    \/ \E s \in Slots : Translate(s, TRUE)
    \/ \E s \in Slots : DigenRequest(s, IdImage)
    \/ \E s \in Slots, i \in 1..BatchSize :
         (\A j \in 1..(i - 1) : ~TaskRunning(req[s], j)) /\ Download(s, i, "bytes")
    \/ \E s \in Slots : Persist(s, TRUE)
    \/ \E s \in Slots : Finish(s, TRUE, TRUE, TRUE)
    \/ \E s \in Slots, q \in Slots, u \in UserIds, f \in BOOLEAN : CallbackRegen(s, q, u, f)

SpecRun == Init /\ [][NextRun]_vars

T_j == <<"j">>

\* Settings: the admin sets the rate limit and the credentials ("k|s", then a
\* bare "j") while prompts of the other user are admitted and sent to the
\* provider (which answers 500).
NextSettings ==
    \/ \E d \in {"admin_limit", "admin_token"} : CallbackAdmin(ADMIN_ID, d)
    \/ \E t \in {T_45, T_999} : AdminSetLimit(t, TRUE)
    \/ \E t \in {T_ks, T_j} : AdminSetToken(t, TRUE)
    \/ \E s \in Slots : GenerateStart(s, 2, "neo", T_abc, TRUE)
    \/ \E s \in Slots : Translate(s, TRUE)
    \/ \E s \in Slots : DigenRequest(s, RespHttp500)

SpecSettings == Init /\ [][NextSettings]_vars

\* Users: both users send prompts one at a time under changing usernames, the
\* admin bans and unbans user 2, the provider names one image, which downloads;
\* a second prompt within the default rate limit is denied.
NextUsers ==
    \/ Tick
    \/ CallbackAdmin(ADMIN_ID, "admin_ban")
    \/ AdminBanFlow(T_2, TRUE)
    \/ \E s \in Slots, u \in UserIds, n \in Usernames :
         InFlight < 1 /\ GenerateStart(s, u, n, T_abc, TRUE)
    \/ \E s \in Slots : Translate(s, TRUE)
    \/ \E s \in Slots : DigenRequest(s, OneImage)
    \/ \E s \in Slots, i \in 1..BatchSize : Download(s, i, "bytes")
    \/ \E s \in Slots : Persist(s, TRUE)
    \/ \E s \in Slots : Finish(s, TRUE, TRUE, TRUE)

SpecUsers == Init /\ [][NextUsers]_vars

\* Update dispatch as the specification describes it: a prompt may arrive while
\* an earlier request of the same user is suspended at an I/O step. User 2
\* sends prompts, the provider returns an identifier and the fetches succeed.
NextRace ==
    \/ Tick
    \/ \E s \in Slots : GenerateStart(s, 2, "neo", T_cat, TRUE)
    \/ \E s \in Slots : Translate(s, TRUE)
    \/ \E s \in Slots : DigenRequest(s, IdImage)
    \/ \E s \in Slots, i \in 1..BatchSize :
         (\A j \in 1..(i - 1) : ~TaskRunning(req[s], j)) /\ Download(s, i, "bytes")
    \/ \E s \in Slots : Persist(s, TRUE)
    \/ \E s \in Slots : Finish(s, TRUE, TRUE, TRUE)

SpecRace == Init /\ [][NextRace]_vars

\* Who may act: both users press every button of the panel and send texts; a
\* text goes through message_router to admin_message_processor or to generate
\* (the provider answers 500).
NextGuard ==
    \/ \E u \in UserIds, d \in AdminButtons : CallbackAdmin(u, d)
    \/ \E u \in UserIds : ProcessBroadcast(u, T_abc, {}, TRUE)
    \/ \E u \in UserIds : ProcessSetLimit(u, T_45, TRUE)
    \/ \E u \in UserIds : ProcessBanFlow(u, T_2, TRUE)
    \/ \E u \in UserIds : ProcessSetToken(u, T_k, TRUE)
    \/ \E s \in Slots, u \in UserIds :
         InFlight < 1 /\ GenerateStart(s, u, "neo", T_45, TRUE)
    \/ \E s \in Slots : Translate(s, TRUE)
    \/ \E s \in Slots : DigenRequest(s, RespHttp500)

SpecGuard == Init /\ [][NextGuard]_vars

\* The whole program: every input, handlers suspended side by side.
Next ==
    \/ Tick
    \/ \E u \in UserIds, d \in AdminButtons : CallbackAdmin(u, d)
    \/ \E t \in Texts, blocked \in SUBSET UserIds, ok \in BOOLEAN :
         AdminBroadcast(t, blocked, ok)
    \/ \E t \in Texts, ok \in BOOLEAN : AdminSetLimit(t, ok)
    \/ \E t \in Texts, ok \in BOOLEAN : AdminBanFlow(t, ok)
    \/ \E t \in Texts, ok \in BOOLEAN : AdminSetToken(t, ok)
    \/ \E s \in Slots, u \in UserIds, n \in Usernames, t \in Texts, ok \in BOOLEAN :
         GenerateStart(s, u, n, t, ok)
    \/ \E s \in Slots, ok \in BOOLEAN : Translate(s, ok)
    \/ \E s \in Slots, resp \in Responses : DigenRequest(s, resp)
    \/ \E s \in Slots, i \in 1..BatchSize, d \in FetchData : Download(s, i, d)
    \/ \E s \in Slots, ok \in BOOLEAN : Persist(s, ok)
    \/ \E s \in Slots, v \in BOOLEAN, w \in BOOLEAN, n \in BOOLEAN : Finish(s, v, w, n)
    \/ \E s \in Slots, q \in Slots, u \in UserIds, f \in BOOLEAN : CallbackRegen(s, q, u, f)

Spec == Init /\ [][Next]_vars

(* ------------------------------ properties ----------------------------- *)
\* slot s takes a prompt in this step
Starts(s) == req[s].pc = "idle" /\ req'[s].pc # "idle"

\* last_generation_timestamp of u before the step (0 for an unknown user)
StoredTs(u) == IF u \in DOMAIN users THEN users[u].last_gen_ts ELSE 0

\* rate_limit_seconds in force before the step
StoredLimit ==
    IF "rate_limit" \in DOMAIN settings THEN ParseInt(settings["rate_limit"]).val
    ELSE RateLimitFallback

TimestampsKept ==
    \A u \in DOMAIN users : u \in DOMAIN users' /\ users'[u].last_gen_ts = users[u].last_gen_ts

\* C1: a prompt of a user who is in the ban set is answered Banned whatever the
\* user's timestamp and the rate limit are, and that request translates nothing,
\* calls the provider never, appends no log row and updates no timestamp.
C1_BannedDenied ==
    [][\A s \in Slots :
         /\ (Starts(s) /\ req'[s].user \in bans) =>
              /\ req'[s].pc = "done"
              /\ req'[s].outcome = "Banned"
              /\ req'[s].translations = 0
              /\ req'[s].calls = 0
              /\ ~req'[s].logged
              /\ ~req'[s].ts_set
              /\ logs' = logs
              /\ TimestampsKept
         /\ req[s].pc = "done" => req'[s] = req[s]]_vars

C1_Witness ==
    \E s \in Slots :
        /\ req[s].outcome = "Banned"
        /\ req[s].user \in bans
        /\ users[req[s].user].last_gen_ts = 0
        /\ \E q \in Slots : req[q].outcome = "Done"

\* C2 as amended: for a user who is not banned, with stored timestamp T, the
\* prompt is denied exactly when now - T < rate_limit_seconds, the wait shown is
\* rate_limit_seconds - (now - T) cut to whole seconds, and now - T =
\* rate_limit_seconds is allowed.
C2_AdmissionRule ==
    [][\A s \in Slots :
         (Starts(s) /\ req'[s].user \notin bans) =>
            LET T == StoredTs(req'[s].user)
                left == StoredLimit * Res - (now - T)
            IN  IF left > 0
                THEN /\ req'[s].outcome = "RateLimited"
                     /\ req'[s].wait * Res <= left
                     /\ left < (req'[s].wait + 1) * Res
                ELSE /\ req'[s].outcome \notin {"RateLimited", "Banned"}
                     /\ req'[s].pc = "translate"]_vars

\* a denial with a fraction of a second left, and an admission at the boundary
C2_Witness ==
    /\ \E s \in Slots :
        /\ req[s].outcome = "RateLimited"
        /\ req[s].user \notin bans
        /\ users[req[s].user].last_gen_ts > 0
        /\ req[s].wait = 0
    /\ \E q \in Slots : req[q].outcome = "Done"

\* C2 as stated: the wait shown is exactly rate_limit_seconds - (now - T)
C2_ExactRetryAfter ==
    [][\A s \in Slots :
         (Starts(s) /\ req'[s].user \notin bans /\ req'[s].outcome = "RateLimited") =>
            req'[s].wait * Res = StoredLimit * Res - (now - StoredTs(req'[s].user))]_vars

\* C3 as stated: a user who is not banned and has never generated is admitted at
\* any time and under any configured rate limit.
C3_NewUserAllowed ==
    [][\A s \in Slots :
         (Starts(s) /\ req'[s].user \notin bans /\ StoredTs(req'[s].user) = 0) =>
            req'[s].outcome # "RateLimited"]_vars

ErrorOutcomes == {"ApiError", "NoAssets", "DownloadFailed"}

\* C4: a request that was admitted and ended in an error (provider failure or
\* non-200, no asset references, every fetch without content) has appended no
\* log row and set no timestamp: every log row and every non-zero timestamp
\* belongs to a request that got past the fetch stage, so the failed request
\* does not rate-limit the user's next prompt.
C4_FailedRequestLeavesNoTrace ==
    /\ \A s \in Slots :
         req[s].outcome \in ErrorOutcomes => ~req[s].logged /\ ~req[s].ts_set
    /\ Len(logs) = Cardinality({s \in Slots : req[s].logged})
    /\ \A u \in DOMAIN users :
         users[u].last_gen_ts # 0 => \E s \in Slots : req[s].user = u /\ req[s].ts_set

\* after a failed request of a user, the same user's next prompt is admitted
C4_Witness ==
    \E s \in Slots, q \in Slots :
        /\ req[s].outcome \in ErrorOutcomes
        /\ req[q].user = req[s].user
        /\ req[q].pc = "translate"
        /\ users[req[s].user].last_gen_ts = 0

ExpectedUrls(json) ==
    LET usable(x) == x # NoneStr /\ x # ""
        derived(id) == <<<<"s3", id, 0>>, <<"s3", id, 1>>, <<"s3", id, 2>>, <<"s3", id, 3>>>>
    IN  IF usable(json.id) THEN derived(json.id)
        ELSE IF usable(json.task_id) THEN derived(json.task_id)
        ELSE [i \in 1..(IF Len(json.images) > 4 THEN 4 ELSE Len(json.images)) |->
                json.images[i]]

\* the reply names neither an id, nor a task_id, nor an image
Shapeless(json) ==
    json.id \in {NoneStr, ""} /\ json.task_id \in {NoneStr, ""} /\ json.images = <<>>

C7_ResultsInInputOrder ==
    \A s \in Slots :
        req[s].pc \in {"download", "video"} =>
            /\ Len(req[s].results) = Len(req[s].image_urls)
            /\ \A i \in 1..Len(req[s].results) :
                 /\ req[s].results[i].url = req[s].image_urls[i]
                 /\ req[s].results[i].data \in FetchData \cup {Pending}

C7_Witness ==
    \E s \in Slots :
        /\ req[s].pc = "video"
        /\ req[s].logged
        /\ Len(req[s].results) = 4
        /\ [i \in 1..4 |-> req[s].results[i].data] = <<"bytes", "none", "bytes", "bytes">>

\* the fetch stage of slot s ends in this step
Gathered(s) == req[s].pc = "download" /\ req'[s].pc # "download"

\* C8 as amended: the fetch stage ends the request exactly when no fetch brought
\* content (every fetch is absent or came back with an empty body); otherwise
\* one log row is appended and the request goes on; a fetch that finishes
\* changes no other fetch's result.
C8_AbortIffNothingDownloaded ==
    [][\A s \in Slots :
         /\ Gathered(s) =>
              IF \A i \in 1..Len(req[s].results) :
                     req[s].results[i].data \in {"none", "empty"}
              THEN /\ req'[s].outcome = "DownloadFailed"
                   /\ ~req'[s].logged
                   /\ logs' = logs
              ELSE /\ req'[s].outcome # "DownloadFailed"
                   /\ req'[s].logged
                   /\ Len(logs') = Len(logs) + 1
         /\ (req[s].pc = "download" /\ req'[s].pc = "download") =>
              \A i \in 1..Len(req[s].results) :
                  req[s].results[i].data # Pending => req'[s].results[i] = req[s].results[i]]_vars

\* one fetch failed, its siblings did not, and the log row is written
C8_Witness ==
    \E s \in Slots :
        /\ req[s].pc = "video"
        /\ req[s].logged
        /\ Len(logs) = 1
        /\ req[s].absent = 1
        /\ Len(req[s].results) = 4

\* C8 as stated: the fetch stage ends the request exactly when every fetch is absent
C8_AbortIffAllAbsent ==
    [][\A s \in Slots :
         Gathered(s) =>
            (req'[s].outcome = "DownloadFailed"
               <=> \A i \in 1..Len(req[s].results) : req[s].results[i].data = "none")]_vars

\* admin_message_processor consumes a text in this step: only it replies to
\* the admin, writes bans and settings, and clears the tag
AdminConsumed ==
    /\ admin_action[ADMIN_ID] # NoAction
    /\ \/ <<admin_reply, bans, settings>>' # <<admin_reply, bans, settings>>
       \/ admin_action'[ADMIN_ID] = NoAction

C10_LimitNeverNegative ==
    "rate_limit" \in DOMAIN settings => ParseInt(settings["rate_limit"]).val >= 0

\* the admin's text is consumed by ban_flow in this step
BanSubmission ==
    /\ admin_action[ADMIN_ID] = "ban_flow"
    /\ <<admin_reply, bans>>' # <<admin_reply, bans>>

\* C11: every ban_flow submission of an identity u flips the ban state of u and
\* of nobody else (banned becomes unbanned, unbanned becomes banned, and the
\* reply names the new state), and nothing but such a submission changes the
\* ban set; so from unbanned, u is banned exactly after an odd number of
\* submissions.
C11_BanToggle ==
    [][IF BanSubmission /\ ParseInt(admin_reply'[3]).ok
       THEN LET u == ParseInt(admin_reply'[3]).val
            IN  /\ u \in bans' <=> u \notin bans
                /\ bans' \ {u} = bans \ {u}
                /\ admin_reply'[1] = "banned" => u \in bans'
                /\ admin_reply'[1] = "unbanned" => u \notin bans'
       ELSE bans' = bans]_vars

\* 2 was submitted twice (banned, then unbanned) while 3 stays banned
C11_Witness ==
    /\ admin_reply = <<"unbanned", 2, T_2>>
    /\ bans = {3}

\* C12 as stated: no pending admin action is recorded for an identity other
\* than the admin
C12_NoPendingForNonAdmin ==
    \A u \in UserIds \ {ADMIN_ID} : admin_action[u] = NoAction

\* C13 as stated: no reply of generate to a requester who is not the admin
\* carries the body of the provider's response
C13_NoRawBodyShown ==
    \A s \in Slots :
        req[s].user # ADMIN_ID => req[s].shown \notin {RawBody(200), RawBody(500)}

\* request s appends its log row in this step
Logs(s) == req[s].pc = "download" /\ req'[s].logged

\* request s writes the user's timestamp in this step
Stamps(s) == req[s].pc = "video" /\ req'[s].ts_set

\* C14 as amended: a request whose provider call returned an identifier and
\* whose fetches brought content appends exactly one log row, holding the
\* requester's identity, the original (untranslated) prompt and the 4 derived
\* URLs in index order; no other step changes the log; and at its end the
\* requester's timestamp is set to the clock at that moment, which is at or
\* after the now that admission used.
C14_SuccessfulRequest ==
    [][/\ \A s \in Slots :
            /\ Logs(s) =>
                 /\ logs' = Append(logs, logs'[Len(logs')])
                 /\ logs'[Len(logs')].user_id = req[s].user
                 /\ logs'[Len(logs')].prompt = req[s].prompt
                 /\ req[s].translated => logs'[Len(logs')].prompt # req[s].payload
                 /\ logs'[Len(logs')].images =
                      [i \in 1..BatchSize |-> DerivedUrl(req[s].resp.json.id, i - 1)]
            /\ Stamps(s) =>
                 /\ users'[req[s].user].last_gen_ts = now
                 /\ now >= req[s].admit_now
                 /\ logs' = logs
       /\ logs' # logs => \E s \in Slots : Logs(s)]_vars

\* all 4 fetches succeeded, the one log row is the requester's, and the
\* timestamp is later than the row's, so later than the admission
C14_Witness ==
    \E s \in Slots :
        /\ req[s].outcome = "Done"
        /\ req[s].fetches = BatchSize
        /\ req[s].absent = 0
        /\ req[s].translated
        /\ Len(logs) = 1
        /\ logs[1].user_id = req[s].user
        /\ logs[1].prompt = <<"c", "a", "t">>
        /\ users[req[s].user].last_gen_ts > logs[1].ts

\* C14 as stated: the timestamp is set to the now used for admission
C14_TimestampIsAdmissionNow ==
    [][\A s \in Slots :
         Stamps(s) => users'[req[s].user].last_gen_ts = req[s].admit_now]_vars

C16_TimestampMonotone ==
    [][\A u \in DOMAIN users :
         u \in DOMAIN users' /\ users'[u].last_gen_ts >= users[u].last_gen_ts]_vars

\* two requests of one user ran side by side (the second was admitted before the
\* first wrote the timestamp), both have written it, and the stored value is
\* later than both log rows
C16_Witness ==
    /\ req[1].user = req[2].user
    /\ req[1].ts_set /\ req[2].ts_set
    /\ req[1].pc = "done" /\ req[2].pc = "done"
    /\ Len(logs) = 2
    /\ logs[1].ts > Epoch * Res
    /\ users[req[1].user].last_gen_ts > logs[2].ts

\* the value stored under key before the step, or the empty start-up default
Stored(key) == IF key \in DOMAIN settings THEN settings[key] ELSE <<>>

\* request s calls the provider in this step
Calls(s) == req[s].pc = "digen" /\ req'[s].calls = req[s].calls + 1

\* C17: settings are read when they are used. A completed set_limit with N
\* stores N and a completed set_token stores token and session ("token|session")
\* or the token alone, leaving the session as it was (a bare token); every
\* admission decides with the rate limit stored at that moment and every
\* provider call carries the token and session stored at that moment.
C17_SettingsReadFresh ==
    [][/\ \A s \in Slots :
            /\ Starts(s) =>
                 /\ req'[s].outcome = "RateLimited" <=>
                      now - StoredTs(req'[s].user) < StoredLimit * Res
                 /\ req'[s].pc = "translate" => req'[s].rate_limit = StoredLimit
            /\ Calls(s) =>
                 /\ req'[s].token = Stored("digen_token")
                 /\ req'[s].sessionid = Stored("digen_session")
       /\ (AdminConsumed /\ admin_action[ADMIN_ID] = "set_limit") =>
            settings' = SettingsWith(settings, "rate_limit",
                                     IntStr(ParseInt(admin_reply'[3]).val))
       /\ (AdminConsumed /\ admin_action[ADMIN_ID] = "set_token") =>
            LET t == Strip(admin_reply'[3])
            IN  IF HasPipe(t)
                THEN /\ Stored("digen_token")' = Strip(SplitPipe(t)[1])
                     /\ Stored("digen_session")' = Strip(SplitPipe(t)[2])
                     /\ Stored("rate_limit")' = Stored("rate_limit")
                ELSE settings' = SettingsWith(settings, "digen_token", t)]_vars

\* "k|s" and then the bare "j" were stored and a provider call carried j with s;
\* the limit was set to 999 and the next prompt was denied under it
C17_Witness ==
    /\ \E s \in Slots :
          /\ req[s].calls = 1
          /\ req[s].token = <<"j">>
          /\ req[s].sessionid = <<"s">>
    /\ \E q \in Slots : req[q].outcome = "RateLimited"
    /\ settings["rate_limit"] = IntStr(999)

\* the reply kinds of each pending action
RepliesOf(tag) ==
    CASE tag = "broadcast" -> {"forwarded", "reply_failed"}
      [] tag = "set_limit" -> {"limit_saved", "need_integer"}
      [] tag = "ban_flow" -> {"banned", "unbanned", "bad_id"}
      [] tag = "set_token" -> {"token_saved", "token_session_saved", "reply_failed"}
      [] OTHER -> {}

\* the settings rows that each pending action may write
KeysOf(tag) ==
    CASE tag = "set_limit" -> {"rate_limit"}
      [] tag = "set_token" -> {"digen_token", "digen_session"}
      [] OTHER -> {}

\* C18: the admin has one pending action at most, the one selected last. A
\* selection made while another is pending replaces it and executes nothing;
\* the next text is consumed by the pending (last selected) action alone: the
\* reply, the settings rows written and the ban change are that action's, and
\* afterwards that action or none is pending.
C18_LastSelectionOnly ==
    [][/\ admin_action[ADMIN_ID] \in AdminActions \cup {NoAction}
       /\ AdminConsumed =>
            LET tag == admin_action[ADMIN_ID]
            IN  /\ admin_reply'[1] \in RepliesOf(tag)
                /\ \A k \in {"rate_limit", "digen_token", "digen_session"} \ KeysOf(tag) :
                      Stored(k)' = Stored(k)
                /\ tag # "ban_flow" => bans' = bans
                /\ admin_action'[ADMIN_ID] \in {tag, NoAction}
       /\ (admin_action'[ADMIN_ID] \notin {admin_action[ADMIN_ID], NoAction}) =>
            /\ admin_action'[ADMIN_ID] \in AdminActions
            /\ UNCHANGED <<admin_reply, bans, settings, users, logs>>]_vars

\* ban_flow answered "abc" with an error and so stayed pending; set_limit is
\* pending now: it was selected while ban_flow was pending
C18_Witness ==
    /\ admin_action[ADMIN_ID] = "set_limit"
    /\ admin_reply = <<"bad_id", 0, T_abc>>

\* C19: a prompt handled by generate leaves the requester recorded with the
\* display name of this message, whatever the outcome (Banned and RateLimited
\* included), with the timestamp the row had (0 for a new row) and every other
\* row untouched; no step removes a row.
C19_UserUpsert ==
    [][/\ \A s \in Slots :
            Starts(s) =>
                LET u == req'[s].user
                IN  /\ u \in DOMAIN users'
                    /\ users'[u].username = req'[s].username
                    /\ users'[u].last_gen_ts = StoredTs(u)
                    /\ \A v \in DOMAIN users \ {u} : users'[v] = users[v]
       /\ \A v \in DOMAIN users : v \in DOMAIN users']_vars

\* a user generated as "neo", was banned, and sent a prompt without username:
\* the denial recorded the new display name and kept the timestamp
C19_Witness ==
    \E s \in Slots, q \in Slots :
        /\ req[s].outcome = "Done"
        /\ req[s].username = "neo"
        /\ req[q].outcome = "Banned"
        /\ req[q].user = req[s].user
        /\ req[q].username = "N/A"
        /\ users[req[q].user].username = "N/A"
        /\ users[req[q].user].last_gen_ts > 0

\* C20 as stated: a press of the regenerate button passes through admission
\* with the button's prompt: it is denied as Banned or RateLimited or goes on
\* to translation and the provider
C20_RegenRunsPipeline ==
    [][\A s \in Slots :
         (Starts(s) /\ req'[s].regen) =>
            \/ req'[s].outcome \in {"Banned", "RateLimited"}
            \/ req'[s].pc = "translate"]_vars

\* request s was admitted and has not returned yet
Admitted(s) == req[s].pc \in {"translate", "digen", "download", "video"}

\* C21 as stated: two requests of one user that are in flight at the same time
\* were admitted at least rate_limit_seconds apart
C21_OneAdmissionPerWindow ==
    \A s \in Slots, q \in Slots :
        (s # q /\ Admitted(s) /\ Admitted(q) /\ req[s].user = req[q].user
           /\ req[s].admit_now >= req[q].admit_now) =>
            req[s].admit_now - req[q].admit_now >= req[s].rate_limit * Res

\* C22 as stated: a finished request that appended a log row has also written
\* the requester's timestamp
C22_LoggedImpliesStamped ==
    \A s \in Slots : (req[s].pc = "done" /\ req[s].logged) => req[s].ts_set

\* C23: settings, the ban set and the broadcast reply change only in a step in
\* which the admin has a pending action, and then as that action's reply; a
\* prompt of another user and a button press of another user change none of
\* them, and a tag recorded for another user is never consumed: that user's
\* text is a prompt.
C23_OnlyAdminChanges ==
    [][/\ <<settings, bans, admin_reply>>' # <<settings, bans, admin_reply>> =>
            /\ admin_action[ADMIN_ID] \in AdminActions
            /\ admin_reply'[1] \in RepliesOf(admin_action[ADMIN_ID])
            /\ \A u \in UserIds \ {ADMIN_ID} : admin_action'[u] = admin_action[u]
            /\ \A s \in Slots : ~Starts(s)
       /\ \A u \in UserIds \ {ADMIN_ID} :
            admin_action'[u] # admin_action[u] => admin_action'[u] \in AdminActions]_vars

\* user 2 pressed the limit button and sent "45": it was handled as a prompt,
\* no rate limit is stored and the tag is still recorded
C23_Witness ==
    /\ admin_action[2] = "set_limit"
    /\ \E s \in Slots :
          /\ req[s].user = 2
          /\ req[s].prompt = T_45
          /\ req[s].outcome = "ApiError"
    /\ "rate_limit" \notin DOMAIN settings
    /\ bans = {}
    /\ admin_reply = <<"", 0, <<>>>>

====
